---- MODULE Spec2Model ----
(***************************************************************************)
(* Source-to-Sell backend: the request handlers of backend/main.py and the *)
(* profile generation of backend/services.py, as a state machine over the  *)
(* accounts, sources, claims, activities and assets tables and the files   *)
(* under assets/.  tasks are the requests of a concurrent run.             *)
(*                                                                         *)
(* Text is modelled at token granularity: a model response is a sequence   *)
(* of tokens (whitespace, a code fence, prose words, braces, and the       *)
(* members of the profile object).  Floats are integers in tenths          *)
(* (confidence 0.3 is 3).  Python's None is the string Null.               *)
(***************************************************************************)
EXTENDS Integers, Sequences, FiniteSets, TLC

VARIABLES accounts, sources, claims, activities, assets, files, req,
          callLog, fetchLog, result, tasks

vars == <<accounts, sources, claims, activities, assets, files, req,
          callLog, fetchLog, result, tasks>>

Null == "None"

(***************************************************************************)
(* Bounds of the model.                                                    *)
(***************************************************************************)
\* longest claims array of a model response
MaxClaims == 2
\* longest run of whitespace put around a payload
MaxPad == 1
\* highest account id given out in the full specification
MaxAccountId == 2
\* most Activity rows in the full specification
MaxActivities == 1
\* requests in flight at once in the concurrent specification
MaxTasks == 3

(***************************************************************************)
(* Program constants.                                                      *)
(***************************************************************************)
\* services.py:154  self._call_llm(prompt, max_retries=2)
max_retries == 2
\* schemas.py:56-57  ge=0.0, le=1.0 (tenths)
ConfidenceGe == 0
ConfidenceLe == 10
\* main.py:137  content.get("text", "")[:10000]
RawTextCap == 10000

Min(a, b) == IF a < b THEN a ELSE b

(***************************************************************************)
(* URLs.  A URL is a record of its text parts; urlparse finds a netloc     *)
(* only behind a scheme.                                                   *)
(***************************************************************************)
Url(scheme, www, host, path) ==
    [scheme |-> scheme, www |-> www, host |-> host, path |-> path]

UrlAcme == Url("https://", FALSE, "acme.com", "")
UrlAcmeAbout == Url("https://", TRUE, "Acme.com", "/about")
UrlBeta == Url("https://", FALSE, "beta.io", "")

\* str.lower() on the host names in use
Lower(h) == IF h = "Acme.com" THEN "acme.com" ELSE h

\* urlparse(url).netloc, as the list of its parts
Netloc(url) ==
    IF url.scheme = "" THEN <<>>
    ELSE (IF url.www THEN <<"www.">> ELSE <<>>) \o <<url.host>>

\* ExtractionService.extract_domain
extract_domain(url) ==
    LET domain == [i \in 1..Len(Netloc(url)) |-> Lower(Netloc(url)[i])]
    IN  IF Len(domain) > 0 /\ domain[1] = "www." THEN Tail(domain) ELSE domain

(***************************************************************************)
(* Model responses.                                                        *)
(***************************************************************************)
WS == [t |-> "ws"]
FENCE == [t |-> "fence"]
TAG == [t |-> "json"]
WORD == [t |-> "word"]
LB == [t |-> "{"]
RB == [t |-> "}"]
HeadTok(h) == [t |-> "head", head |-> h]
ClaimTok(c) == [t |-> "claim", claim |-> c]

\* the scalar members of the profile object: "company_name", "industry",
\* "size_hint" (products, pain_points, recent_events are left out: [])
ProfileHead(has_name, name, industry, size_hint) ==
    [has_name |-> has_name, company_name |-> name,
     industry |-> industry, size_hint |-> size_hint]

HeadFull == ProfileHead(TRUE, "Acme", "Tech", "50-100")
HeadMin == ProfileHead(TRUE, "Acme", Null, Null)
HeadNoName == ProfileHead(FALSE, "", "Tech", "50-100")

\* one element of the "claims" array, as the model wrote it
RawClaim(has_text, text, source_url, evidence_quote, has_conf, conf) ==
    [has_text |-> has_text, text |-> text, source_url |-> source_url,
     evidence_quote |-> evidence_quote, has_confidence |-> has_conf,
     confidence |-> conf]

RcSourced == RawClaim(TRUE, "t", "https://acme.com", "quote", TRUE, 9)
RcUnsourcedLow == RawClaim(TRUE, "t", Null, Null, TRUE, 2)
RcUnsourcedHigh == RawClaim(TRUE, "t", Null, Null, TRUE, 9)
RcUrlNoQuote == RawClaim(TRUE, "t", "https://acme.com", Null, TRUE, 9)
RcEmptyText == RawClaim(TRUE, "", "https://acme.com", "quote", TRUE, 5)
RcNoText == RawClaim(FALSE, "", "https://acme.com", "quote", TRUE, 5)
RcNoConf == RawClaim(TRUE, "t", "https://acme.com", "quote", FALSE, 0)
RcConfHigh == RawClaim(TRUE, "t", "https://acme.com", "quote", TRUE, 11)
RcConfLow == RawClaim(TRUE, "t", Null, Null, TRUE, -1)
RcBoundary == RawClaim(TRUE, "t", Null, Null, TRUE, 10)
RcEmptyUrl == RawClaim(TRUE, "t", "", "quote", TRUE, 5)

AllRawClaims ==
    {RcSourced, RcUnsourcedLow, RcUnsourcedHigh, RcUrlNoQuote, RcEmptyText,
     RcNoText, RcNoConf, RcConfHigh, RcConfLow, RcBoundary}

SeqsUpTo(S, n) == UNION {[1..k -> S] : k \in 0..n}

Payload(h, cs) == [head |-> h, claims |-> cs]

Pad(n) == [i \in 1..n |-> WS]

\* the JSON text of a payload
Bare(p) ==
    <<LB, HeadTok(p.head)>>
        \o [i \in 1..Len(p.claims) |-> ClaimTok(p.claims[i])] \o <<RB>>
\* whitespace + json + whitespace
Padded(p, n) == Pad(n) \o Bare(p) \o Pad(n)
\* fence, json tag, newline, json, newline, fence
Fenced(p) == <<FENCE, TAG, WS>> \o Bare(p) \o <<WS, FENCE>>
\* the same with the closing fence missing
Unterminated(p) == <<FENCE, TAG, WS>> \o Bare(p) \o <<WS>>
\* the JSON text cut off after its k-th token
Truncated(p, k) == SubSeq(Bare(p), 1, k)
\* prose
Garbage == <<WORD, WS, WORD>>
\* prose around the JSON text
InProse(p) == <<WORD, WS>> \o Bare(p) \o <<WS, WORD>>

(***************************************************************************)
(* json.loads: leading whitespace is skipped, one value is decoded, and    *)
(* anything but whitespace behind it is an error.  The only value the      *)
(* token alphabet can spell is an object of head and claim members.        *)
(***************************************************************************)
\* the first index at or after i that holds no whitespace (Len(s)+1: none)
SkipWs(s, i) ==
    CHOOSE k \in i..(Len(s) + 1) :
        /\ \A m \in i..(k - 1) : s[m].t = "ws"
        /\ (k = Len(s) + 1 \/ s[k].t # "ws")

\* the index of the first closing brace behind i (Len(s)+1: none)
CloseOf(s, i) ==
    CHOOSE k \in (i + 1)..(Len(s) + 1) :
        /\ \A m \in (i + 1)..(k - 1) : s[m].t # "}"
        /\ (k = Len(s) + 1 \/ s[k].t = "}")

IsMember(tok) == tok.t \in {"head", "claim", "ws"}

NoHead == ProfileHead(FALSE, "", Null, Null)

\* the dict a decoded object is: the scalar members (a repeated key keeps
\* its last value), and the "claims" array in order
DictOf(s, i, j) ==
    LET heads == SelectSeq(SubSeq(s, i + 1, j - 1), LAMBDA tok : tok.t = "head")
        cls == SelectSeq(SubSeq(s, i + 1, j - 1), LAMBDA tok : tok.t = "claim")
    IN  [head |-> IF Len(heads) = 0 THEN NoHead ELSE heads[Len(heads)].head,
         claims |-> [k \in 1..Len(cls) |-> cls[k].claim]]

NoDict == [head |-> NoHead, claims |-> <<>>]

\* a decoder that takes the first braced region wherever it stands
json_loads_lenient(s) ==
    LET opens == {k \in 1..Len(s) : s[k].t = "{"}
        i == IF opens = {} THEN Len(s) + 1
             ELSE CHOOSE k \in opens : \A m \in opens : k <= m
        j == IF i > Len(s) THEN i ELSE CloseOf(s, i)
    IN  IF i > Len(s) \/ j > Len(s) THEN [ok |-> FALSE, value |-> NoDict]
        ELSE IF \E m \in (i + 1)..(j - 1) : ~IsMember(s[m])
             THEN [ok |-> FALSE, value |-> NoDict]
        ELSE [ok |-> TRUE, value |-> DictOf(s, i, j)]

json_loads(s) ==
    LET i == SkipWs(s, 1)
        j == IF i > Len(s) THEN i ELSE CloseOf(s, i)
    IN  IF i > Len(s) \/ s[i].t # "{" THEN [ok |-> FALSE, value |-> NoDict]
        ELSE IF j > Len(s) THEN [ok |-> FALSE, value |-> NoDict]
        ELSE IF \E m \in (i + 1)..(j - 1) : ~IsMember(s[m])
             THEN [ok |-> FALSE, value |-> NoDict]
        ELSE IF SkipWs(s, j + 1) # Len(s) + 1
             THEN [ok |-> FALSE, value |-> NoDict]
        ELSE [ok |-> TRUE, value |-> DictOf(s, i, j)]

(***************************************************************************)
(* ClaimData as built from one claims element: text and confidence are     *)
(* required, confidence                                                    *)
(* is bounded by ge/le, source_url and evidence_quote default to None.     *)
(***************************************************************************)
Claim(text, source_url, evidence_quote, confidence) ==
    [text |-> text, source_url |-> source_url,
     evidence_quote |-> evidence_quote, confidence |-> confidence]

NoClaim == Claim("", Null, Null, 0)

\* a validator that clamps the confidence into range
ClaimData_clamps(c) ==
    IF ~c.has_text \/ ~c.has_confidence
    THEN [ok |-> FALSE, field |-> "text", value |-> NoClaim]
    ELSE [ok |-> TRUE, field |-> "",
          value |-> Claim(c.text, c.source_url, c.evidence_quote,
                          IF c.confidence < ConfidenceGe THEN ConfidenceGe
                          ELSE Min(c.confidence, ConfidenceLe))]

ClaimData(c) ==
    IF ~c.has_text THEN [ok |-> FALSE, field |-> "text", value |-> NoClaim]
    ELSE IF ~c.has_confidence
         THEN [ok |-> FALSE, field |-> "confidence", value |-> NoClaim]
    ELSE IF ~(c.confidence >= ConfidenceGe /\ c.confidence <= ConfidenceLe)
         THEN [ok |-> FALSE, field |-> "confidence", value |-> NoClaim]
    ELSE [ok |-> TRUE, field |-> "",
          value |-> Claim(c.text, c.source_url, c.evidence_quote, c.confidence)]

\* a loop that drops the claims that fail to construct
ValidateClaims_skip_invalid(cs) ==
    LET good == SelectSeq(cs, LAMBDA c : ClaimData(c).ok)
    IN  [ok |-> TRUE, claims |-> [k \in 1..Len(good) |-> ClaimData(good[k]).value]]

\* the loop of generate_profile over profile_data.get("claims", []): the
\* first claim that fails to construct raises
ValidateClaims(cs) ==
    IF \E k \in 1..Len(cs) : ~ClaimData(cs[k]).ok
    THEN [ok |-> FALSE, claims |-> <<>>]
    ELSE [ok |-> TRUE, claims |-> [k \in 1..Len(cs) |-> ClaimData(cs[k]).value]]

CompanyProfile(head, cls) ==
    [company_name |-> head.company_name, industry |-> head.industry,
     size_hint |-> head.size_hint, claims |-> cls]

\* the body of the try block of LLMService.generate_profile behind the
\* model call, with the stage that raised
ProfileOf(response) ==
    LET parsed == json_loads(response)
        checked == ValidateClaims(parsed.value.claims)
    IN  IF ~parsed.ok
        THEN [ok |-> FALSE, stage |-> "parse",
              detail |-> <<"LLM returned invalid JSON">>, profile |-> <<>>]
        ELSE IF ~checked.ok
        THEN [ok |-> FALSE, stage |-> "validation",
              detail |-> <<"Profile generation failed: ",
                           "validation error for ClaimData">>,
              profile |-> <<>>]
        ELSE IF ~parsed.value.head.has_name
        THEN [ok |-> FALSE, stage |-> "construct",
              detail |-> <<"Profile generation failed: ", "'company_name'">>,
              profile |-> <<>>]
        ELSE [ok |-> TRUE, stage |-> "", detail |-> <<>>,
              profile |-> <<CompanyProfile(parsed.value.head, checked.claims)>>]

(***************************************************************************)
(* The tables.  Rows are kept in insertion order.  A timestamp is the      *)
(* statement that last wrote it: updated_at is "created" from the insert   *)
(* of create_prospect and "profiled" from the update of generate_profile.  *)
(***************************************************************************)
AccountRow(id, name, domain, website) ==
    [id |-> id, name |-> name, domain |-> domain, website |-> website,
     industry |-> Null, size_hint |-> Null, summary |-> <<>>,
     updated_at |-> "created"]

SourceRow(account_id, url, title, raw_text, status) ==
    [account_id |-> account_id, url |-> url, title |-> title,
     raw_text |-> raw_text, status |-> status]

ClaimRow(account_id, c) ==
    [account_id |-> account_id, text |-> c.text, source_url |-> c.source_url,
     evidence_quote |-> c.evidence_quote, confidence |-> c.confidence]

\* session.get(Account, account_id)
AccountExists(id) == \E k \in 1..Len(accounts) : accounts[k].id = id

AccountOf(id) == accounts[CHOOSE k \in 1..Len(accounts) : accounts[k].id = id]

\* the next primary key of the accounts table
NextAccountId ==
    IF accounts = <<>> THEN 1
    ELSE 1 + (CHOOSE m \in {accounts[k].id : k \in 1..Len(accounts)} :
                 \A k \in 1..Len(accounts) : accounts[k].id <= m)

\* select(Source).where(account_id == id, status == "success")
SuccessSources(id) ==
    SelectSeq(sources, LAMBDA r : r.account_id = id /\ r.status = "success")

\* select(Claim).where(account_id == id)
ClaimsOf(id) == SelectSeq(claims, LAMBDA r : r.account_id = id)

(***************************************************************************)
(* Requests.  A handler runs from its start to its response without        *)
(* another one in between; req is the request being served (or the last    *)
(* one served), callLog the outcomes of the model calls it made, fetchLog  *)
(* the page fetches it made, result its response.                          *)
(***************************************************************************)
Request(op, account_id, pc, attempt, response) ==
    [op |-> op, account_id |-> account_id, pc |-> pc, attempt |-> attempt,
     response |-> response, urls |-> <<>>]

\* coverage measures that are not the handler's
provenance_coverage_needs_quote(cls) ==
    IF cls = <<>> THEN [num |-> 0, den |-> 1]
    ELSE [num |-> Len(SelectSeq(cls, LAMBDA c :
                         /\ c.source_url # Null /\ c.source_url # ""
                         /\ c.evidence_quote # Null)),
          den |-> Len(cls)]
provenance_coverage_unguarded(cls) ==
    [num |-> Len(SelectSeq(cls, LAMBDA c :
                     c.source_url # Null /\ c.source_url # "")),
     den |-> Len(cls)]
provenance_coverage_smoothed(cls) ==
    [num |-> Len(SelectSeq(cls, LAMBDA c :
                     c.source_url # Null /\ c.source_url # "")),
     den |-> Len(cls) + 1]
provenance_coverage_of_unsourced(cls) ==
    IF cls = <<>> THEN [num |-> 0, den |-> 1]
    ELSE [num |-> Len(SelectSeq(cls, LAMBDA c :
                         c.source_url = Null \/ c.source_url = "")),
          den |-> Len(cls)]

\* sourced_claims / total_claims of generate_profile, as a fraction:
\* the claims with a truthy source_url over all, 0 for no claims
provenance_coverage(cls) ==
    LET sourced_claims ==
            Len(SelectSeq(cls, LAMBDA c :
                    c.source_url # Null /\ c.source_url # ""))
        total_claims == Len(cls)
    IN  IF total_claims > 0 THEN [num |-> sourced_claims, den |-> total_claims]
        ELSE [num |-> 0, den |-> 1]

\* the response of a request; one that returns a profile reports its
\* provenance_coverage and claims_count, create_prospect its sources_fetched
Response(status, stage, detail, profile) ==
    [status |-> status, stage |-> stage, detail |-> detail, profile |-> profile,
     provenance_coverage |->
         IF profile = <<>> THEN [num |-> 0, den |-> 1]
         ELSE provenance_coverage(profile[1].claims),
     claims_count |-> IF profile = <<>> THEN 0 ELSE Len(profile[1].claims),
     sources_fetched |-> 0]

Busy == req.pc \in {"call", "parse"}

\* what a fetch of one URL gives: a page (its title, the length of its
\* text) or a failure
Page(title, len) == [ok |-> TRUE, title |-> title, text |-> len]
FetchFailed == [ok |-> FALSE, title |-> "", text |-> 0]

\* the Source row of one fetch
FetchedRow(aid, url, content) ==
    IF content.ok
    THEN SourceRow(aid, url, content.title, Min(content.text, RawTextCap),
                   "success")
    ELSE SourceRow(aid, url, "", 0, "error: Failed to extract content")

\* a loop that keeps the error's message as the text of the row
RECURSIVE FetchAll_error_text(_, _, _, _)
FetchAll_error_text(rows, aid, urls, fetch) ==
    IF urls = <<>> THEN rows
    ELSE LET url == Head(urls)
             existing_source ==
                 \E k \in 1..Len(rows) :
                     rows[k].account_id = aid /\ rows[k].url = url
             source ==
                 IF fetch[url].ok THEN FetchedRow(aid, url, fetch[url])
                 ELSE SourceRow(aid, url, "", 25,
                                "error: Failed to extract content")
         IN  FetchAll_error_text(
                 IF existing_source THEN rows ELSE Append(rows, source),
                 aid, Tail(urls), fetch)

\* a loop whose lookup sees only the rows committed before the request
RECURSIVE FetchAll_stale_lookup(_, _, _, _)
FetchAll_stale_lookup(rows, aid, urls, fetch) ==
    IF urls = <<>> THEN rows
    ELSE LET url == Head(urls)
             existing_source ==
                 \E k \in 1..Len(sources) :
                     sources[k].account_id = aid /\ sources[k].url = url
         IN  FetchAll_stale_lookup(
                 IF existing_source THEN rows
                 ELSE Append(rows, FetchedRow(aid, url, fetch[url])),
                 aid, Tail(urls), fetch)

\* a loop that fetches again a URL whose source is in error, and
\* overwrites that source
RECURSIVE FetchAll_retries_errors(_, _, _, _)
FetchAll_retries_errors(rows, aid, urls, fetch) ==
    IF urls = <<>> THEN rows
    ELSE LET url == Head(urls)
             found == {k \in 1..Len(rows) :
                          rows[k].account_id = aid /\ rows[k].url = url}
         IN  FetchAll_retries_errors(
                 IF found = {}
                 THEN Append(rows, FetchedRow(aid, url, fetch[url]))
                 ELSE [k \in 1..Len(rows) |->
                          IF k \in found /\ rows[k].status # "success"
                          THEN FetchedRow(aid, url, fetch[url])
                          ELSE rows[k]],
                 aid, Tail(urls), fetch)

\* a loop that a failed fetch ends
RECURSIVE FetchAll_aborts(_, _, _, _)
FetchAll_aborts(rows, aid, urls, fetch) ==
    IF urls = <<>> THEN rows
    ELSE LET url == Head(urls)
             existing_source ==
                 \E k \in 1..Len(rows) :
                     rows[k].account_id = aid /\ rows[k].url = url
         IN  IF existing_source
             THEN FetchAll_aborts(rows, aid, Tail(urls), fetch)
             ELSE IF fetch[url].ok
             THEN FetchAll_aborts(Append(rows, FetchedRow(aid, url, fetch[url])),
                                  aid, Tail(urls), fetch)
             ELSE rows

\* the loop of create_prospect over urls_to_fetch: a URL the account has
\* a source for is skipped, any other is fetched and recorded
RECURSIVE FetchAll(_, _, _, _)
FetchAll(rows, aid, urls, fetch) ==
    IF urls = <<>> THEN rows
    ELSE LET url == Head(urls)
             existing_source ==
                 \E k \in 1..Len(rows) :
                     rows[k].account_id = aid /\ rows[k].url = url
             content == fetch[url]
             source ==
                 IF content.ok
                 THEN SourceRow(aid, url, content.title,
                                Min(content.text, RawTextCap), "success")
                 ELSE SourceRow(aid, url, "", 0,
                                "error: Failed to extract content")
         IN  FetchAll(IF existing_source THEN rows ELSE Append(rows, source),
                      aid, Tail(urls), fetch)

\* the URLs that loop hands to extract_content, in order
RECURSIVE Fetched(_, _, _, _)
Fetched(rows, aid, urls, fetch) ==
    IF urls = <<>> THEN <<>>
    ELSE LET url == Head(urls)
             existing_source ==
                 \E k \in 1..Len(rows) :
                     rows[k].account_id = aid /\ rows[k].url = url
         IN  IF existing_source THEN Fetched(rows, aid, Tail(urls), fetch)
             ELSE <<[url |-> url, ok |-> fetch[url].ok]>>
                      \o Fetched(FetchAll(rows, aid, <<url>>, fetch), aid,
                                 Tail(urls), fetch)

EmptyUrl == Url("", FALSE, "", "")

\* POST /prospects/create
create_prospect(company_name, company_url, extra_urls, fetch) ==
    LET domain == extract_domain(company_url)
        found == {k \in 1..Len(accounts) : accounts[k].domain = domain}
        account ==
            IF found # {} THEN accounts[CHOOSE k \in found : \A m \in found : k <= m]
            ELSE AccountRow(NextAccountId,
                            IF company_name # <<>> THEN company_name ELSE domain,
                            domain, company_url)
        urls_to_fetch ==
            <<company_url>> \o SelectSeq(extra_urls, LAMBDA u : u # EmptyUrl)
    IN  /\ ~Busy
        /\ accounts' = IF found # {} THEN accounts ELSE Append(accounts, account)
        /\ sources' = FetchAll(sources, account.id, urls_to_fetch, fetch)
        /\ req' = [Request("create_prospect", account.id, "done", 0, <<>>)
                       EXCEPT !.urls = urls_to_fetch]
        /\ callLog' = <<>>
        /\ fetchLog' = Fetched(sources, account.id, urls_to_fetch, fetch)
        /\ result' =
               [Response(200, "", <<"Account created/updated successfully">>,
                         <<>>)
                   EXCEPT !.sources_fetched = Len(urls_to_fetch)]
        /\ UNCHANGED <<claims, activities, assets, files>>

\* retry tests that are off by one
ShouldRetry_never(attempt) == FALSE
ShouldRetry_once_more(attempt) == attempt <= max_retries

\* the retry test of _call_llm: attempt < max_retries
ShouldRetry(attempt) == attempt < max_retries

\* a handler that calls the model without looking at the sources
generate_profile_start_unchecked(account_id) ==
    /\ ~Busy
    /\ callLog' = <<>>
    /\ fetchLog' = <<>>
    /\ UNCHANGED <<accounts, sources, claims, activities, assets, files>>
    /\ IF ~AccountExists(account_id)
       THEN /\ req' = Request("generate_profile", account_id, "done", 0, <<>>)
            /\ result' = Response(500, "account", <<"404", ": ", "Account not found">>, <<>>)
       ELSE /\ req' = Request("generate_profile", account_id, "call", 0, <<>>)
            /\ result' = Response(0, "", <<>>, <<>>)

\* POST /accounts/{account_id}/generate_profile, up to the model call
generate_profile_start(account_id) ==
    /\ ~Busy
    /\ callLog' = <<>>
    /\ fetchLog' = <<>>
    /\ UNCHANGED <<accounts, sources, claims, activities, assets, files>>
    /\ IF ~AccountExists(account_id)
       THEN /\ req' = Request("generate_profile", account_id, "done", 0, <<>>)
            /\ result' = Response(500, "account", <<"404", ": ", "Account not found">>, <<>>)
       ELSE IF SuccessSources(account_id) = <<>>
       THEN /\ req' = Request("generate_profile", account_id, "done", 0, <<>>)
            /\ result' = Response(500, "sources",
                   <<"400", ": ", "No successful sources found for this account">>,
                   <<>>)
       ELSE /\ req' = Request("generate_profile", account_id, "call", 0, <<>>)
            /\ result' = Response(0, "", <<>>, <<>>)

\* _call_llm: the model call raises
call_llm_raises ==
    /\ req.pc = "call"
    /\ callLog' = Append(callLog, "err")
    /\ UNCHANGED <<accounts, sources, claims, activities, assets, files,
                   fetchLog>>
    /\ IF ShouldRetry(req.attempt)
       THEN /\ req' = [req EXCEPT !.attempt = req.attempt + 1]
            /\ UNCHANGED result
       ELSE /\ req' = [req EXCEPT !.pc = "done"]
            /\ result' = Response(500, "model",
                   <<"Profile generation failed: ", "model error">>, <<>>)

\* _call_llm: the model call returns the text of its answer
call_llm_returns(response) ==
    /\ req.pc = "call"
    /\ callLog' = Append(callLog, "ok")
    /\ req' = [req EXCEPT !.pc = "parse", !.response = response]
    /\ UNCHANGED <<accounts, sources, claims, activities, assets, files,
                   fetchLog, result>>

\* the claims of every account deleted, not only the account's own
ReplaceClaims_clears_table(account_id, profile) ==
    [k \in 1..Len(profile.claims) |-> ClaimRow(account_id, profile.claims[k])]

\* claims added without the account's earlier ones deleted
ReplaceClaims_keeps_old(account_id, profile) ==
    claims
        \o [k \in 1..Len(profile.claims) |->
               ClaimRow(account_id, profile.claims[k])]

\* the rows of the claims table after the account's claims are deleted
\* and the claims of the profile are added
ReplaceClaims(account_id, profile) ==
    SelectSeq(claims, LAMBDA r : r.account_id # account_id)
        \o [k \in 1..Len(profile.claims) |-> ClaimRow(account_id, profile.claims[k])]

\* the accounts table after the account takes the profile's fields
UpdateAccount(account_id, profile) ==
    [k \in 1..Len(accounts) |->
        IF accounts[k].id = account_id
        THEN [accounts[k] EXCEPT !.industry = profile.industry,
                                 !.size_hint = profile.size_hint,
                                 !.summary = <<profile.company_name, "N/A">>,
                                 !.updated_at = "profiled"]
        ELSE accounts[k]]

\* a handler that asks the model again when the answer does not decode
generate_profile_finish_retries ==
    LET out == ProfileOf(req.response)
    IN  /\ req.pc = "parse"
        /\ UNCHANGED <<sources, activities, assets, files, callLog, fetchLog>>
        /\ IF out.ok
           THEN /\ req' = [req EXCEPT !.pc = "done"]
                /\ accounts' = UpdateAccount(req.account_id, out.profile[1])
                /\ claims' = ReplaceClaims(req.account_id, out.profile[1])
                /\ result' = Response(200, "", <<>>, out.profile)
           ELSE IF out.stage = "parse" /\ req.attempt < max_retries
           THEN /\ req' = [req EXCEPT !.pc = "call", !.attempt = req.attempt + 1]
                /\ UNCHANGED <<accounts, claims, result>>
           ELSE /\ req' = [req EXCEPT !.pc = "done"]
                /\ UNCHANGED <<accounts, claims>>
                /\ result' = Response(500, out.stage, out.detail, <<>>)

\* a handler that deletes the account's claims before it has a profile
generate_profile_finish_clears ==
    LET out == ProfileOf(req.response)
    IN  /\ req.pc = "parse"
        /\ req' = [req EXCEPT !.pc = "done"]
        /\ UNCHANGED <<sources, activities, assets, files, callLog, fetchLog>>
        /\ IF out.ok
           THEN /\ accounts' = UpdateAccount(req.account_id, out.profile[1])
                /\ claims' = ReplaceClaims(req.account_id, out.profile[1])
                /\ result' = Response(200, "", <<>>, out.profile)
           ELSE /\ UNCHANGED accounts
                /\ claims' = SelectSeq(claims,
                                 LAMBDA r : r.account_id # req.account_id)
                /\ result' = Response(500, out.stage, out.detail, <<>>)

\* generate_profile behind the model call: decode, validate, persist
generate_profile_finish ==
    LET out == ProfileOf(req.response)
    IN  /\ req.pc = "parse"
        /\ req' = [req EXCEPT !.pc = "done"]
        /\ UNCHANGED <<sources, activities, assets, files, callLog, fetchLog>>
        /\ IF out.ok
           THEN /\ accounts' = UpdateAccount(req.account_id, out.profile[1])
                /\ claims' = ReplaceClaims(req.account_id, out.profile[1])
                /\ result' = Response(200, "", <<>>, out.profile)
           ELSE /\ UNCHANGED <<accounts, claims>>
                /\ result' = Response(500, out.stage, out.detail, <<>>)

(***************************************************************************)
(* The other handlers.  Each runs from its start to its response in one    *)
(* step.  callLog has one entry for each call of the LLMService: "ok" for  *)
(* a returned draft, "err" for an exception.                               *)
(***************************************************************************)
AssetRow(account_id, kind) == [account_id |-> account_id, kind |-> kind]
ActivityRow(account_id, type) == [account_id |-> account_id, type |-> type]

\* a file under assets/account_{account_id}/
File(account_id, kind) == [account_id |-> account_id, kind |-> kind]

\* the files of assets/account_{account_id}
AssetsDir(account_id) == {f \in files : f.account_id = account_id}

\* POST /accounts/{account_id}/generate_assets; email and pitch are the
\* outcomes of generate_email and generate_pitch.  create_landing_page
\* reads a name it does not have (account_id) and raises NameError, with
\* the email and pitch files written and no Asset row added.
generate_assets(account_id, email, pitch) ==
    /\ ~Busy
    /\ req' = Request("generate_assets", account_id, "done", 0, <<>>)
    /\ fetchLog' = <<>>
    /\ UNCHANGED <<accounts, sources, claims, activities, assets>>
    /\ IF ~AccountExists(account_id)
       THEN /\ callLog' = <<>>
            /\ result' = Response(500, "account",
                                  <<"404", ": ", "Account not found">>, <<>>)
            /\ UNCHANGED files
       ELSE IF ClaimsOf(account_id) = <<>>
       THEN /\ callLog' = <<>>
            /\ result' = Response(500, "claims",
                   <<"400", ": ",
                     "No profile data found. Generate profile first.">>, <<>>)
            /\ UNCHANGED files
       ELSE IF email # "ok"
       THEN /\ callLog' = <<"err">>
            /\ result' = Response(500, "email",
                   <<"Email generation failed: ", "model error">>, <<>>)
            /\ UNCHANGED files
       ELSE IF pitch # "ok"
       THEN /\ callLog' = <<"ok", "err">>
            /\ result' = Response(500, "pitch",
                   <<"Pitch generation failed: ", "model error">>, <<>>)
            /\ UNCHANGED files
       ELSE /\ callLog' = <<"ok", "ok">>
            /\ files' = files \cup {File(account_id, "email"),
                                     File(account_id, "pitch_md")}
            /\ result' = Response(500, "landing",
                   <<"name 'account_id' is not defined">>, <<>>)

\* POST /accounts/{account_id}/upload_transcript; transcript is the
\* outcome of decoding and summarizing the upload ("undecodable",
\* "err", "ok").  The Activity is given a dict for its str column
\* content; bound tells whether the database driver takes it at commit.
upload_transcript(account_id, transcript, bound) ==
    /\ ~Busy
    /\ req' = Request("upload_transcript", account_id, "done", 0, <<>>)
    /\ fetchLog' = <<>>
    /\ UNCHANGED <<accounts, sources, claims, assets, files>>
    /\ IF ~AccountExists(account_id)
       THEN /\ callLog' = <<>>
            /\ result' = Response(500, "account",
                                  <<"404", ": ", "Account not found">>, <<>>)
            /\ UNCHANGED activities
       ELSE IF transcript = "undecodable"
       THEN /\ callLog' = <<>>
            /\ result' = Response(500, "transcript",
                                  <<"'utf-8' codec can't decode">>, <<>>)
            /\ UNCHANGED activities
       ELSE IF transcript # "ok"
       THEN /\ callLog' = <<"err">>
            /\ result' = Response(500, "summary",
                   <<"Meeting summary failed: ", "model error">>, <<>>)
            /\ UNCHANGED activities
       ELSE IF ~bound
       THEN /\ callLog' = <<"ok">>
            /\ result' = Response(500, "commit",
                                  <<"Error binding parameter">>, <<>>)
            /\ UNCHANGED activities
       ELSE /\ callLog' = <<"ok">>
            /\ activities' =
                   Append(activities, ActivityRow(account_id, "call_summary"))
            /\ result' = Response(200, "", <<>>, <<>>)

\* a handler that leaves the claims of the account behind
delete_account_keeps_claims(account_id, rmtree_ok) ==
    /\ ~Busy
    /\ req' = Request("delete_account", account_id, "done", 0, <<>>)
    /\ callLog' = <<>>
    /\ fetchLog' = <<>>
    /\ IF ~AccountExists(account_id)
       THEN /\ result' = Response(500, "account",
                                  <<"404", ": ", "Account not found">>, <<>>)
            /\ UNCHANGED <<accounts, sources, claims, activities, assets,
                           files>>
       ELSE IF AssetsDir(account_id) # {} /\ ~rmtree_ok
       THEN /\ result' = Response(500, "rmtree",
                                  <<"[Errno 13] Permission denied">>, <<>>)
            /\ \E gone \in SUBSET AssetsDir(account_id) :
                   /\ gone # AssetsDir(account_id)
                   /\ files' = files \ gone
            /\ UNCHANGED <<accounts, sources, claims, activities, assets>>
       ELSE /\ sources' = SelectSeq(sources,
                                    LAMBDA r : r.account_id # account_id)
            /\ activities' = SelectSeq(activities,
                                       LAMBDA r : r.account_id # account_id)
            /\ assets' = SelectSeq(assets,
                                   LAMBDA r : r.account_id # account_id)
            /\ files' = files \ AssetsDir(account_id)
            /\ accounts' = SelectSeq(accounts, LAMBDA r : r.id # account_id)
            /\ result' = Response(200, "",
                                  <<"Account deleted successfully">>, <<>>)
            /\ UNCHANGED claims

\* DELETE /accounts/{account_id}; rmtree_ok tells whether the removal of
\* the account's directory goes through.  A removal that fails may have
\* removed part of the directory, and nothing is committed.
delete_account(account_id, rmtree_ok) ==
    /\ ~Busy
    /\ req' = Request("delete_account", account_id, "done", 0, <<>>)
    /\ callLog' = <<>>
    /\ fetchLog' = <<>>
    /\ IF ~AccountExists(account_id)
       THEN /\ result' = Response(500, "account",
                                  <<"404", ": ", "Account not found">>, <<>>)
            /\ UNCHANGED <<accounts, sources, claims, activities, assets,
                           files>>
       ELSE IF AssetsDir(account_id) # {} /\ ~rmtree_ok
       THEN /\ result' = Response(500, "rmtree",
                                  <<"[Errno 13] Permission denied">>, <<>>)
            /\ \E gone \in SUBSET AssetsDir(account_id) :
                   /\ gone # AssetsDir(account_id)
                   /\ files' = files \ gone
            /\ UNCHANGED <<accounts, sources, claims, activities, assets>>
       ELSE /\ sources' = SelectSeq(sources,
                                    LAMBDA r : r.account_id # account_id)
            /\ claims' = SelectSeq(claims,
                                   LAMBDA r : r.account_id # account_id)
            /\ activities' = SelectSeq(activities,
                                       LAMBDA r : r.account_id # account_id)
            /\ assets' = SelectSeq(assets,
                                   LAMBDA r : r.account_id # account_id)
            /\ files' = files \ AssetsDir(account_id)
            /\ accounts' = SelectSeq(accounts, LAMBDA r : r.id # account_id)
            /\ result' = Response(200, "",
                                  <<"Account deleted successfully">>, <<>>)

(***************************************************************************)
(* The inputs of the system specification.                                 *)
(***************************************************************************)
CompanyNames == {<<>>}
CompanyUrls == {UrlAcme, UrlBeta}
ExtraUrlLists == {<<>>, <<UrlAcme>>}
FetchOutcomes == {Page("Home", 500), FetchFailed}

SysRawClaims == {RcSourced, RcConfHigh}
SysPayloads ==
    {Payload(HeadFull, cs) : cs \in SeqsUpTo(SysRawClaims, MaxClaims)}
        \cup {Payload(HeadNoName, <<RcSourced>>)}
Payload0 == Payload(HeadFull, <<RcSourced>>)

Responses ==
    {Bare(p) : p \in SysPayloads}
        \cup {Padded(Payload0, n) : n \in 1..MaxPad}
        \cup {Fenced(Payload0), Unterminated(Payload0), Garbage, InProse(Payload0)}
        \cup {Truncated(Payload0, k) : k \in 0..(Len(Bare(Payload0)) - 1)}

Init ==
    /\ accounts = <<>>
    /\ sources = <<>>
    /\ claims = <<>>
    /\ req = Request("", 0, "idle", 0, <<>>)
    /\ callLog = <<>>
    /\ fetchLog = <<>>
    /\ result = Response(0, "", <<>>, <<>>)
    /\ activities = <<>>
    /\ assets = <<>>
    /\ files = {}
    /\ tasks = <<>>

CreateProspect ==
    /\ \E n \in CompanyNames, u \in CompanyUrls, x \in ExtraUrlLists :
        \E fetch \in [{u} \cup {x[k] : k \in 1..Len(x)} -> FetchOutcomes] :
            create_prospect(n, u, x, fetch)
    /\ UNCHANGED tasks

GenerateProfileStart ==
    /\ \E id \in 1..(Len(accounts) + 1) : generate_profile_start(id)
    /\ UNCHANGED tasks

CallLlmRaises == call_llm_raises /\ UNCHANGED tasks

CallLlmReturns ==
    /\ \E r \in Responses : call_llm_returns(r)
    /\ UNCHANGED tasks

GenerateProfileFinish == generate_profile_finish /\ UNCHANGED tasks

Next ==
    \/ CreateProspect
    \/ GenerateProfileStart
    \/ CallLlmRaises
    \/ CallLlmReturns
    \/ GenerateProfileFinish

Spec == Init /\ [][Next]_vars

(***************************************************************************)
(* The parser specification: generate_profile behind the model call, on    *)
(* every response the token alphabet spells within the bounds.  It starts  *)
(* where one account with one fetched source has had its model call        *)
(* answered.                                                               *)
(***************************************************************************)
AllHeads == {HeadFull, HeadMin, HeadNoName}
AllPayloads ==
    {Payload(h, cs) : h \in AllHeads, cs \in SeqsUpTo(AllRawClaims, MaxClaims)}

JsonForms(p) == {Bare(p)} \cup {Padded(p, n) : n \in 1..MaxPad}
BrokenForms(p) ==
    {Unterminated(p), InProse(p)}
        \cup {Truncated(p, k) : k \in 0..(Len(Bare(p)) - 1)}

AllResponses ==
    {Garbage} \cup UNION {JsonForms(p) \cup {Fenced(p)} \cup BrokenForms(p) :
                             p \in AllPayloads}

InitParser ==
    /\ accounts = <<AccountRow(1, <<"acme.com">>, <<"acme.com">>, UrlAcme)>>
    /\ sources = <<SourceRow(1, UrlAcme, "Home", 500, "success")>>
    /\ claims = <<>>
    /\ req \in {Request("generate_profile", 1, "parse", 0, r) : r \in AllResponses}
    /\ callLog = <<"ok">>
    /\ fetchLog = <<>>
    /\ result = Response(0, "", <<>>, <<>>)
    /\ activities = <<>>
    /\ assets = <<>>
    /\ files = {}
    /\ tasks = <<>>

NextParser == GenerateProfileFinish

SpecParser == InitParser /\ [][NextParser]_vars

(***************************************************************************)
(* The batch specification: generate_profile behind the model call for an  *)
(* account that was profiled before.  Account 1 has the claims of an       *)
(* earlier profile (or none, if that profile had none), account 2 has its  *)
(* own; the answer is any profile JSON over claims with every kind of      *)
(* provenance, or prose.                                                   *)
(***************************************************************************)
RcOldSourced == Claim("old", "https://acme.com", "quote", 8)
RcOldUnsourced == Claim("old", Null, Null, 2)

Profiled(row) ==
    [row EXCEPT !.industry = "Tech", !.size_hint = "50-100",
                !.summary = <<"Acme", "N/A">>, !.updated_at = "profiled"]

PriorBatches ==
    {<<>>, <<ClaimRow(1, RcOldSourced), ClaimRow(1, RcOldUnsourced)>>}

BatchRawClaims == {RcSourced, RcUnsourcedLow, RcUrlNoQuote, RcEmptyUrl}
BatchPayloads ==
    {Payload(h, cs) : h \in {HeadFull, HeadMin},
                      cs \in SeqsUpTo(BatchRawClaims, MaxClaims)}
BatchResponses == {Garbage} \cup UNION {JsonForms(p) : p \in BatchPayloads}

InitBatch ==
    /\ accounts =
           <<Profiled(AccountRow(1, <<"acme.com">>, <<"acme.com">>, UrlAcme)),
             Profiled(AccountRow(2, <<"beta.io">>, <<"beta.io">>, UrlBeta))>>
    /\ sources = <<SourceRow(1, UrlAcme, "Home", 500, "success"),
                   SourceRow(2, UrlBeta, "Home", 500, "success")>>
    /\ claims \in {prior \o <<ClaimRow(2, RcOldUnsourced)>> :
                      prior \in PriorBatches}
    /\ req \in {Request("generate_profile", 1, "parse", 0, r) :
                   r \in BatchResponses}
    /\ callLog = <<"ok">>
    /\ fetchLog = <<>>
    /\ result = Response(0, "", <<>>, <<>>)
    /\ activities = <<>>
    /\ assets = <<>>
    /\ files = {}
    /\ tasks = <<>>

NextBatch == GenerateProfileFinish

SpecBatch == InitBatch /\ [][NextBatch]_vars

(***************************************************************************)
(* The prospect specification: create_prospect requests alone, with extra  *)
(* URLs that repeat the company URL and each other, and pages longer than  *)
(* the text that is kept.                                                  *)
(***************************************************************************)
\* schemas.py:23  "Maximum 2 extra URLs allowed"
MaxExtraUrls == 2

ProspectUrls == {UrlAcme, UrlBeta}
ProspectExtraLists ==
    SeqsUpTo({UrlAcme, EmptyUrl}, MaxExtraUrls)
ProspectFetchOutcomes == {Page("Home", 12000), FetchFailed}

CreateProspectWide ==
    /\ \E u \in ProspectUrls, x \in ProspectExtraLists :
        \E fetch \in [{u} \cup {x[k] : k \in 1..Len(x)}
                          -> ProspectFetchOutcomes] :
            create_prospect(<<>>, u, x, fetch)
    /\ UNCHANGED tasks

NextProspect == CreateProspectWide

SpecProspect == Init /\ [][NextProspect]_vars

(***************************************************************************)
(* The full specification: every handler that writes, on few inputs.       *)
(***************************************************************************)
CrmUrls == {UrlAcme, UrlBeta}
CrmExtraLists == {<<>>}
CrmResponses == {Bare(Payload0)}
AccountIds == 1..(Len(accounts) + 1)

CrmCreateProspect ==
    /\ NextAccountId <= MaxAccountId
    /\ \E u \in CrmUrls, x \in CrmExtraLists :
        \E fetch \in [{u} \cup {x[k] : k \in 1..Len(x)} -> FetchOutcomes] :
            create_prospect(<<>>, u, x, fetch)
    /\ UNCHANGED tasks

CrmCallLlmReturns ==
    /\ \E r \in CrmResponses : call_llm_returns(r)
    /\ UNCHANGED tasks

GenerateAssets ==
    /\ \E id \in AccountIds, email \in {"ok", "err"}, pitch \in {"ok", "err"} :
           generate_assets(id, email, pitch)
    /\ UNCHANGED tasks

UploadTranscript ==
    /\ Len(activities) < MaxActivities
    /\ \E id \in AccountIds, transcript \in {"undecodable", "err", "ok"},
          bound \in BOOLEAN :
           upload_transcript(id, transcript, bound)
    /\ UNCHANGED tasks

DeleteAccount ==
    /\ \E id \in AccountIds, rmtree_ok \in BOOLEAN :
           delete_account(id, rmtree_ok)
    /\ UNCHANGED tasks

NextCrm ==
    \/ CrmCreateProspect
    \/ GenerateProfileStart
    \/ CallLlmRaises
    \/ CrmCallLlmReturns
    \/ GenerateProfileFinish
    \/ GenerateAssets
    \/ UploadTranscript
    \/ DeleteAccount

SpecCrm == Init /\ [][NextCrm]_vars

(***************************************************************************)
(* The domain specification: create_prospect requests alone, on company    *)
(* URLs with and without a scheme, with www. and in upper case.            *)
(***************************************************************************)
UrlAcmeBare == Url("", FALSE, "acme.com", "")
UrlBetaBare == Url("", FALSE, "beta.io", "")

DomainUrls == {UrlAcme, UrlAcmeAbout, UrlBeta, UrlAcmeBare, UrlBetaBare}

CreateProspectDomains ==
    /\ \E u \in DomainUrls :
           create_prospect(<<>>, u, <<>>, [v \in {u} |-> Page("Home", 500)])
    /\ UNCHANGED tasks

NextDomains == CreateProspectDomains

SpecDomains == Init /\ [][NextDomains]_vars

(***************************************************************************)
(* The concurrent specification: MaxTasks generate_profile requests are    *)
(* in flight at once, for two accounts that have a source.  The handlers   *)
(* are coroutines that never suspend (the model client and time.sleep      *)
(* block), so the event loop runs a handler to its response before it      *)
(* starts the next; which waiting request it starts next is open.          *)
(***************************************************************************)
Task(account_id, state, batch) ==
    [account_id |-> account_id, state |-> state, batch |-> batch]

ConcAccountIds == 1..2
PayloadB == Payload(HeadFull, <<RcUnsourcedLow, RcUrlNoQuote>>)
ConcResponses == {Bare(Payload0), Bare(PayloadB), Garbage}

\* the running task gets its outcome
Settle(state, batch) ==
    [k \in 1..Len(tasks) |->
        IF tasks[k].state = "running"
        THEN Task(tasks[k].account_id, state, batch)
        ELSE tasks[k]]

InitConcurrent ==
    /\ accounts = <<AccountRow(1, <<"acme.com">>, <<"acme.com">>, UrlAcme),
                    AccountRow(2, <<"beta.io">>, <<"beta.io">>, UrlBeta)>>
    /\ sources = <<SourceRow(1, UrlAcme, "Home", 500, "success"),
                   SourceRow(2, UrlBeta, "Home", 500, "success")>>
    /\ claims = <<>>
    /\ activities = <<>>
    /\ assets = <<>>
    /\ files = {}
    /\ req = Request("create_prospect", 2, "done", 0, <<>>)
    /\ callLog = <<>>
    /\ fetchLog = <<>>
    /\ result = Response(200, "",
                         <<"Account created/updated successfully">>, <<>>)
    /\ tasks \in [1..MaxTasks ->
                    {Task(a, "waiting", <<>>) : a \in ConcAccountIds}]

\* the event loop starts the handler of a waiting request
Serve ==
    \E k \in 1..Len(tasks) :
        /\ tasks[k].state = "waiting"
        /\ generate_profile_start(tasks[k].account_id)
        /\ tasks' = [tasks EXCEPT ![k].state =
                         IF req'.pc = "done" THEN "failed" ELSE "running"]

ConcCallLlmRaises ==
    /\ call_llm_raises
    /\ tasks' = IF req'.pc = "done" THEN Settle("failed", <<>>) ELSE tasks

ConcCallLlmReturns ==
    /\ \E r \in ConcResponses : call_llm_returns(r)
    /\ UNCHANGED tasks

ConcFinish ==
    /\ generate_profile_finish
    /\ tasks' = IF result'.status = 200
                THEN Settle("done", result'.profile[1].claims)
                ELSE Settle("failed", <<>>)

NextConcurrent ==
    \/ Serve
    \/ ConcCallLlmRaises
    \/ ConcCallLlmReturns
    \/ ConcFinish

SpecConcurrent == InitConcurrent /\ [][NextConcurrent]_vars

(***************************************************************************)
(* Vocabulary of the properties.                                           *)
(***************************************************************************)
\* services.py:122  "set confidence <= 0.3" (tenths)
UnsourcedConfidenceCap == 3

\* a claims element as the data model wants it: text, and a confidence
\* in [0, 1]
WellFormedClaim(c) ==
    /\ c.has_text /\ c.text # ""
    /\ c.has_confidence /\ c.confidence >= 0 /\ c.confidence <= 10

\* the payloads that are a valid profile
ValidPayloads ==
    {p \in AllPayloads :
        /\ p.head.has_name
        /\ \A k \in 1..Len(p.claims) : WellFormedClaim(p.claims[k])}

\* the responses that are a valid profile JSON
ValidJsonResponses == UNION {JsonForms(p) : p \in ValidPayloads}

\* the profile a valid payload spells, read off the payload itself
ExpectedProfile(p) ==
    [company_name |-> p.head.company_name, industry |-> p.head.industry,
     size_hint |-> p.head.size_hint,
     claims |-> [k \in 1..Len(p.claims) |->
                    Claim(p.claims[k].text, p.claims[k].source_url,
                          p.claims[k].evidence_quote, p.claims[k].confidence)]]

\* the claims of the profile the last request returned
ReturnedClaims ==
    IF result.profile = <<>> THEN {}
    ELSE {result.profile[1].claims[k] : k \in 1..Len(result.profile[1].claims)}

PersistedClaims == {claims[k] : k \in 1..Len(claims)}

HasProvenance(c) == c.source_url # Null /\ c.evidence_quote # Null

Finished == req.op = "generate_profile" /\ req.pc = "done"

\* C1: every claim of a returned profile, and every persisted claim, has
\* both a source_url and an evidence_quote or a confidence of at most 0.3.
C1_ProvenanceOrLowConfidence ==
    \A c \in ReturnedClaims \cup PersistedClaims :
        HasProvenance(c) \/ c.confidence <= UnsourcedConfidenceCap

\* C2 as stated: one profile generation calls the model at most twice.
C2_AtMostTwoCalls == Len(callLog) <= 2

\* C2 as amended: one profile generation calls the model at most three
\* times (one attempt and two retries); while fewer than three calls have
\* all failed the generation goes on to call again, and when all three have
\* failed the model error is the response.
C2_AtMostThreeCalls ==
    /\ Len(callLog) <= 3
    /\ (req.op = "generate_profile" /\ callLog # <<>>
            /\ (\A k \in 1..Len(callLog) : callLog[k] = "err"))
        => IF Len(callLog) < 3 THEN req.pc = "call"
           ELSE req.pc = "done" /\ result.status = 500 /\ result.stage = "model"

C2_ThreeFailures ==
    /\ Finished /\ callLog = <<"err", "err", "err">>
    /\ result.status = 500 /\ result.stage = "model"

\* C3: when the first model call raises and the second returns a valid
\* profile JSON, the generation goes on to the second call, returns a
\* profile, and has called the model exactly twice.
C3_RetryThenProfile ==
    /\ (req.op = "generate_profile" /\ callLog = <<"err">>) => req.pc = "call"
    /\ (/\ Finished
        /\ Len(callLog) >= 2 /\ callLog[1] = "err" /\ callLog[2] = "ok"
        /\ req.response \in ValidJsonResponses)
        => /\ result.status = 200
           /\ \E p \in ValidPayloads :
                  /\ req.response \in JsonForms(p)
                  /\ result.profile = <<ExpectedProfile(p)>>
           /\ Len(callLog) = 2

C3_SecondCallSucceeded ==
    /\ Finished /\ callLog = <<"err", "ok">>
    /\ result.status = 200 /\ result.profile # <<>>

\* C4: once a model call has returned its text the generation makes no
\* further model call: its next step is its response, and for a text that
\* does not decode that response is the parse error.
C4_ParseFailureNotRetried ==
    [][req.pc = "parse"
        => /\ req'.pc = "done"
           /\ callLog' = callLog
           /\ (~json_loads(req.response).ok
                  => /\ result'.status = 500
                     /\ result'.stage = "parse"
                     /\ result'.detail = <<"LLM returned invalid JSON">>)]_vars

C4_ParseErrorSurfaced ==
    /\ Finished /\ result.status = 500 /\ result.stage = "parse"
    /\ callLog = <<"ok">> /\ ~json_loads(req.response).ok

\* C5: a generate_profile request on an account without a source of status
\* success is answered with the no-sources error, calls the model zero
\* times and leaves the accounts and the claims as they were.
C5_NoSourcesNoModelCall ==
    [][(/\ ~Busy
        /\ req'.op = "generate_profile"
        /\ AccountExists(req'.account_id)
        /\ SuccessSources(req'.account_id) = <<>>)
        => /\ req'.pc = "done"
           /\ result'.status >= 400
           /\ result'.stage = "sources"
           /\ result'.detail =
                  <<"400", ": ", "No successful sources found for this account">>
           /\ callLog' = <<>>
           /\ accounts' = accounts
           /\ claims' = claims]_vars

C5_NoSourcesAnswered ==
    /\ Finished /\ AccountExists(req.account_id)
    /\ SuccessSources(req.account_id) = <<>>
    /\ result.stage = "sources" /\ callLog = <<>>

\* C6: a valid payload gives the same profile whether the response holds
\* it bare, between whitespace, or inside one fenced block.
C6_ThreeFormsOneProfile ==
    \A p \in ValidPayloads :
        (req.pc = "done" /\ req.response \in JsonForms(p) \cup {Fenced(p)})
            => /\ result.status = 200
               /\ result.profile = <<ExpectedProfile(p)>>

NonJsonResponses ==
    {Garbage} \cup UNION {BrokenForms(p) : p \in AllPayloads}

\* C7: a response that is prose, a truncated JSON text, a JSON text in an
\* unterminated fence or a JSON text inside prose fails with the parse
\* error: no profile is returned and no claim is persisted.
C7_NonJsonFails ==
    (req.pc = "done" /\ req.response \in NonJsonResponses)
        => /\ result.status = 500
           /\ result.stage = "parse"
           /\ result.profile = <<>>
           /\ claims = <<>>

C7_UnterminatedFenceFailed ==
    /\ req.pc = "done" /\ req.response = Unterminated(Payload0)
    /\ result.stage = "parse" /\ result.profile = <<>>

BadConfidence(c) ==
    ~c.has_confidence \/ c.confidence < 0 \/ c.confidence > 10

\* the JSON texts whose claims hold one with a missing or out-of-range
\* confidence
BadConfidenceResponses ==
    UNION {JsonForms(p) :
              p \in {q \in AllPayloads :
                        \E k \in 1..Len(q.claims) : BadConfidence(q.claims[k])}}

\* C8: a response whose claims hold one with a missing or out-of-range
\* confidence fails; no returned or persisted claim has a confidence
\* outside [0, 1].
C8_ConfidenceInRange ==
    /\ (req.pc = "done" /\ req.response \in BadConfidenceResponses)
          => /\ result.status = 500
             /\ result.stage = "validation"
             /\ result.profile = <<>>
             /\ claims = <<>>
    /\ \A c \in ReturnedClaims \cup PersistedClaims :
          c.confidence >= 0 /\ c.confidence <= 10

C8_OutOfRangeRejected ==
    /\ req.pc = "done"
    /\ req.response = Bare(Payload(HeadFull, <<RcSourced, RcConfHigh>>))
    /\ result.status = 500 /\ result.stage = "validation"

BadText(c) == ~c.has_text \/ c.text = ""

\* the JSON texts whose claims hold one with a missing or empty text
BadTextResponses ==
    UNION {JsonForms(p) :
              p \in {q \in AllPayloads :
                        \E k \in 1..Len(q.claims) : BadText(q.claims[k])}}

\* C9: a response whose claims hold one with a missing or empty text
\* fails; no returned or persisted claim has an empty text.
C9_TextNonEmpty ==
    /\ (req.pc = "done" /\ req.response \in BadTextResponses)
          => /\ result.status = 500
             /\ result.profile = <<>>
    /\ \A c \in ReturnedClaims \cup PersistedClaims : c.text # ""

\* C10: when one claim of a decoded response fails validation the
\* generation fails: no profile is returned, and the claims and accounts
\* tables stay as they were.
C10_StrictPolicy ==
    [][(/\ req.pc = "parse"
        /\ json_loads(req.response).ok
        /\ \E k \in 1..Len(json_loads(req.response).value.claims) :
               ~ClaimData(json_loads(req.response).value.claims[k]).ok)
        => /\ req'.pc = "done"
           /\ result'.status = 500
           /\ result'.profile = <<>>
           /\ claims' = claims
           /\ accounts' = accounts]_vars

C10_BatchAborted ==
    /\ Finished
    /\ req.response = Bare(Payload(HeadFull, <<RcSourced, RcConfHigh>>))
    /\ result.status = 500 /\ result.profile = <<>>
    /\ ClaimsOf(req.account_id) # <<>>

(***************************************************************************)
(* Persistence of a profile.                                               *)
(***************************************************************************)
\* the rows a list of claims makes for an account
RowsOf(account_id, cls) ==
    [k \in 1..Len(cls) |-> ClaimRow(account_id, cls[k])]

\* C11: after a successful generate_profile the claims persisted for the
\* account are the claims of the returned profile, in its order and with
\* its fields, and nothing else.
C11_ClaimsReplaced ==
    Finished /\ result.status = 200 =>
        ClaimsOf(req.account_id)
            = RowsOf(req.account_id, result.profile[1].claims)

C11_NewBatchPersisted ==
    /\ Finished /\ result.status = 200
    /\ result.claims_count = 2
    /\ result.profile[1].claims[1] # result.profile[1].claims[2]
    /\ Len(ClaimsOf(req.account_id)) = 2
    /\ \E k \in 1..Len(claims) : claims[k].account_id # req.account_id

\* C12: a step of generate_profile that does not answer 200 leaves the
\* accounts, sources and claims tables as they were.
C12_FailureChangesNothing ==
    [][req'.op = "generate_profile" /\ result'.status # 200
           => UNCHANGED <<accounts, sources, claims>>]_vars

C12_FailedOverEarlierProfile ==
    /\ Finished /\ result.status = 500 /\ result.stage = "validation"
    /\ ClaimsOf(req.account_id) # <<>>
    /\ AccountOf(req.account_id).updated_at = "profiled"

(***************************************************************************)
(* Provenance coverage.  A fraction is a numerator over a positive         *)
(* denominator.                                                            *)
(***************************************************************************)
\* a value Python takes for true: neither None nor the empty string
Truthy(v) == v # Null /\ v # ""

HasUrl(c) == Truthy(c.source_url)
LacksUrl(c) == ~Truthy(c.source_url)
LacksProvenance(c) == ~HasProvenance(c)

FractionEq(f, n, d) == f.num * d = n * f.den
FractionGeq(f, g) == f.num * g.den >= g.num * f.den

ScoredClaims == result.profile[1].claims
Scored == Finished /\ result.status = 200

\* C13 as stated: the coverage is the share of the claims that have both
\* a source_url and an evidence_quote.
C13_CoverageCountsUrlAndQuote ==
    Scored /\ result.claims_count > 0 =>
        FractionEq(result.provenance_coverage,
                   Len(SelectSeq(ScoredClaims, HasProvenance)),
                   Len(ScoredClaims))

\* C13: the coverage is the share of the claims that have a non-empty
\* source_url, whether or not they have an evidence_quote.
C13_CoverageCountsUrl ==
    Scored /\ result.claims_count > 0 =>
        FractionEq(result.provenance_coverage,
                   Len(SelectSeq(ScoredClaims, HasUrl)), Len(ScoredClaims))

C13_UrlWithoutQuoteCounted ==
    /\ Scored
    /\ result.claims_count = 2
    /\ HasUrl(ScoredClaims[1]) /\ ScoredClaims[1].evidence_quote = Null
    /\ ScoredClaims[2].source_url = Null
    /\ result.provenance_coverage = [num |-> 1, den |-> 2]

\* C14: the coverage is a fraction in [0, 1], and 0 for a profile without
\* claims.
C14_CoverageInUnitInterval ==
    Scored =>
        /\ result.provenance_coverage.den > 0
        /\ result.provenance_coverage.num >= 0
        /\ result.provenance_coverage.num <= result.provenance_coverage.den
        /\ (ScoredClaims = <<>> => result.provenance_coverage.num = 0)

C14_EmptyProfileScored ==
    Scored /\ ScoredClaims = <<>> /\ result.provenance_coverage.num = 0

\* C15 as stated: a profile with claims, each with a source_url that is
\* not null (the empty string included), has coverage 1.
C15_AllNonNullUrlsGiveOne ==
    Scored /\ ScoredClaims # <<>>
           /\ (\A k \in 1..Len(ScoredClaims) :
                  ScoredClaims[k].source_url # Null) =>
        FractionEq(result.provenance_coverage, 1, 1)

\* C15: a profile with claims, each with a source_url that is neither
\* null nor empty, has coverage 1.
C15_AllNonEmptyUrlsGiveOne ==
    Scored /\ ScoredClaims # <<>>
           /\ (\A k \in 1..Len(ScoredClaims) : HasUrl(ScoredClaims[k])) =>
        FractionEq(result.provenance_coverage, 1, 1)

C15_FullCoverage ==
    /\ Scored
    /\ result.claims_count = 2
    /\ \A k \in 1..2 : HasUrl(ScoredClaims[k])
    /\ ScoredClaims[1].evidence_quote # ScoredClaims[2].evidence_quote
    /\ result.provenance_coverage = [num |-> 2, den |-> 2]

\* the elements of L at the indices in K, in order, from index i on
RECURSIVE Pick(_, _, _)
Pick(L, K, i) ==
    IF i > Len(L) THEN <<>>
    ELSE (IF i \in K THEN <<L[i]>> ELSE <<>>) \o Pick(L, K, i + 1)

\* the lists left when one or more claims that U holds of are removed
Removals(L, U(_)) ==
    {Pick(L, (1..Len(L)) \ R, 1) :
        R \in {R \in SUBSET (1..Len(L)) :
                  R # {} /\ \A i \in R : U(L[i])}}

\* C16 as stated: removing claims that lack a source_url or an
\* evidence_quote never lowers the coverage.
C16_MonotoneWithoutProvenance ==
    Scored =>
        \A shorter \in Removals(ScoredClaims, LacksProvenance) :
            FractionGeq(provenance_coverage(shorter),
                        result.provenance_coverage)

\* C16: removing claims that have no source_url (null or empty) never
\* lowers the coverage.
C16_MonotoneWithoutUrl ==
    Scored =>
        \A shorter \in Removals(ScoredClaims, LacksUrl) :
            FractionGeq(provenance_coverage(shorter),
                        result.provenance_coverage)

C16_RemovalRaisesCoverage ==
    /\ Scored
    /\ result.provenance_coverage = [num |-> 1, den |-> 2]
    /\ \E k \in 1..2 : ScoredClaims[k].source_url = ""
    /\ \E shorter \in Removals(ScoredClaims, LacksUrl) :
           provenance_coverage(shorter) = [num |-> 1, den |-> 1]

(***************************************************************************)
(* What a failure tells the caller.                                        *)
(***************************************************************************)
GenerationStages == {"model", "parse", "validation", "construct"}

\* the message of the error a stage fails with
OriginalMessage(stage) ==
    CASE stage = "model" -> "model error"
      [] stage = "parse" -> "Expecting value"
      [] stage = "validation" -> "validation error for ClaimData"
      [] stage = "construct" -> "'company_name'"

\* the stage the fixed text of a detail names
StageTold(detail) ==
    IF detail = <<"LLM returned invalid JSON">> THEN "parse" ELSE "unknown"

\* C17: a failure of any stage of the profile generation is answered with
\* one kind of error that carries the stage and the message of the error
\* that caused it.
C17_StageAndMessageCarried ==
    Finished /\ result.stage \in GenerationStages =>
        /\ result.status = 500
        /\ StageTold(result.detail) = result.stage
        /\ \E k \in 1..Len(result.detail) :
               result.detail[k] = OriginalMessage(result.stage)

(***************************************************************************)
(* Sources.                                                                *)
(***************************************************************************)
RowsFor(rows, aid, url) ==
    SelectSeq(rows, LAMBDA r : r.account_id = aid /\ r.url = url)

Prospected == req.op = "create_prospect"

\* C18: a Source row whose status is not success has no text.
C18_ErrorRowsHaveNoText ==
    \A k \in 1..Len(sources) :
        sources[k].status # "success" => sources[k].raw_text = 0

C18_ErrorAndSuccessRows ==
    /\ \E k \in 1..Len(sources) :
           sources[k].status # "success" /\ sources[k].raw_text = 0
    /\ \E k \in 1..Len(sources) :
           sources[k].status = "success" /\ sources[k].raw_text = RawTextCap

\* C19: no two Source rows have the same account_id and url.
C19_NoDuplicateSource ==
    \A i, j \in 1..Len(sources) :
        i < j => ~(/\ sources[i].account_id = sources[j].account_id
                   /\ sources[i].url = sources[j].url)

C19_RepeatedUrlsOneRow ==
    /\ Prospected
    /\ Len(req.urls) = 3
    /\ req.urls[2] = req.urls[1] /\ req.urls[3] = req.urls[1]
    /\ Len(fetchLog) = 1
    /\ Len(RowsFor(sources, req.account_id, req.urls[1])) = 1

\* C20: in a create_prospect request every URL the account had no source
\* for is fetched once and gets one row, success if the fetch gave a page
\* and error if it failed, wherever in the request a fetch fails; a URL
\* the account had a source for keeps that row.
C20_FailureDoesNotAbort ==
    [][req'.op = "create_prospect" =>
          \A k \in 1..Len(req'.urls) :
              LET url == req'.urls[k]
                  before == RowsFor(sources, req'.account_id, url)
                  after == RowsFor(sources', req'.account_id, url)
                  tries == SelectSeq(fetchLog', LAMBDA e : e.url = url)
              IN  IF before # <<>> THEN after = before
                  ELSE /\ Len(tries) = 1
                       /\ Len(after) = 1
                       /\ after[1].status =
                              IF tries[1].ok THEN "success"
                              ELSE "error: Failed to extract content"]_vars

C20_FetchedAfterFailure ==
    /\ Prospected
    /\ Len(fetchLog) = 2
    /\ ~fetchLog[1].ok /\ fetchLog[2].ok
    /\ RowsFor(sources, req.account_id, fetchLog[1].url)
           = <<SourceRow(req.account_id, fetchLog[1].url, "", 0,
                         "error: Failed to extract content")>>
    /\ Len(RowsFor(sources, req.account_id, fetchLog[2].url)) = 1

\* C21: no request but delete_account changes or removes a Source row,
\* create_prospect fetches no URL the account has a Source for, and
\* delete_account removes rows without changing the ones it leaves.
C21_SourcesImmutable ==
    [][/\ req'.op # "delete_account" =>
             /\ Len(sources') >= Len(sources)
             /\ \A k \in 1..Len(sources) : sources'[k] = sources[k]
       /\ req'.op = "create_prospect" =>
             \A k \in 1..Len(fetchLog') :
                 RowsFor(sources, req'.account_id, fetchLog'[k].url) = <<>>
       /\ req'.op = "delete_account" =>
             sources' \in {sources,
                           SelectSeq(sources,
                               LAMBDA r : r.account_id # req'.account_id)}
      ]_vars

C21_ErrorSourceKept ==
    /\ Prospected
    /\ Len(req.urls) = 1
    /\ fetchLog = <<>>
    /\ Len(RowsFor(sources, req.account_id, req.urls[1])) = 1
    /\ RowsFor(sources, req.account_id, req.urls[1])[1].status # "success"

(***************************************************************************)
(* The other handlers.                                                     *)
(***************************************************************************)
\* C22: an unknown account id is answered with 404, and a profile without
\* a successful source or assets without claims with 400.
C22_ClientErrorsKeepStatus ==
    /\ result.stage = "account" => result.status = 404
    /\ result.stage \in {"sources", "claims"} => result.status = 400

AssetKinds == {"email", "pitch_md", "landing_zip"}

\* C23: a generate_assets request for an account with claims whose two
\* model calls return drafts answers 200 and leaves one Asset row of each
\* kind for the account.
C23_AssetsGenerated ==
    req.op = "generate_assets" /\ callLog = <<"ok", "ok">> =>
        /\ result.status = 200
        /\ \A kind \in AssetKinds :
               Len(SelectSeq(assets, LAMBDA r :
                       r.account_id = req.account_id /\ r.kind = kind)) = 1

\* the rows of a table that are not the account's
RowsOfOthers(rows, id) == SelectSeq(rows, LAMBDA r : r.account_id # id)

\* C24: a delete_account that answers 200 leaves no row of the account in
\* any table and every other row as it was; one that fails leaves the
\* tables as they were.
C24_DeleteRemovesAccountOnly ==
    [][req'.op = "delete_account" =>
          IF result'.status = 200
          THEN /\ \A k \in 1..Len(accounts') :
                      accounts'[k].id # req'.account_id
               /\ accounts' = SelectSeq(accounts,
                                  LAMBDA r : r.id # req'.account_id)
               /\ sources' = RowsOfOthers(sources', req'.account_id)
               /\ sources' = RowsOfOthers(sources, req'.account_id)
               /\ claims' = RowsOfOthers(claims', req'.account_id)
               /\ claims' = RowsOfOthers(claims, req'.account_id)
               /\ activities' = RowsOfOthers(activities', req'.account_id)
               /\ activities' = RowsOfOthers(activities, req'.account_id)
               /\ assets' = RowsOfOthers(assets', req'.account_id)
               /\ assets' = RowsOfOthers(assets, req'.account_id)
          ELSE UNCHANGED <<accounts, sources, claims, activities, assets>>
      ]_vars

C24_DeletedBesideAnother ==
    /\ req.op = "delete_account" /\ result.status = 200
    /\ ~AccountExists(req.account_id)
    /\ \E k \in 1..Len(accounts) : ClaimsOf(accounts[k].id) # <<>>
    /\ activities # <<>>

\* the host of a URL, in lower case and without www.
HostKey(url) == Lower(url.host)

\* C25: no two accounts have the same domain, and a request is resolved
\* to an account exactly if the company_url that created the account has
\* the same host, case and www. aside, with or without a scheme.
C25_DedupedByHost ==
    /\ \A i, j \in 1..Len(accounts) :
           i < j => accounts[i].domain # accounts[j].domain
    /\ Prospected =>
           \A k \in 1..Len(accounts) :
               (accounts[k].id = req.account_id)
                   <=> (HostKey(accounts[k].website) = HostKey(req.urls[1]))

(***************************************************************************)
(* Concurrent requests.                                                    *)
(***************************************************************************)
AllFinished ==
    /\ tasks # <<>>
    /\ \A k \in 1..Len(tasks) : tasks[k].state \in {"done", "failed"}

\* the requests for an account that returned a profile
Successes(account_id) ==
    {k \in 1..Len(tasks) :
        tasks[k].account_id = account_id /\ tasks[k].state = "done"}

\* C26: when every request in flight has been answered, the claims of an
\* account are the whole batch of one of its requests that returned a
\* profile, as they were if none did, and no claim is of another account.
C26_OneCompleteBatch ==
    AllFinished =>
        /\ \A k \in 1..Len(claims) : AccountExists(claims[k].account_id)
        /\ \A n \in 1..Len(accounts) :
               LET id == accounts[n].id
               IN  IF Successes(id) = {} THEN ClaimsOf(id) = <<>>
                   ELSE \E k \in Successes(id) :
                            ClaimsOf(id) = RowsOf(id, tasks[k].batch)

C26_TwoBatchesAndAFailure ==
    /\ AllFinished
    /\ \E i, j, k \in 1..Len(tasks) :
           /\ tasks[i].account_id = 1 /\ tasks[i].state = "done"
           /\ tasks[j].account_id = 1 /\ tasks[j].state = "done"
           /\ tasks[i].batch # tasks[j].batch
           /\ tasks[k].account_id = 1 /\ tasks[k].state = "failed"
           /\ ClaimsOf(1) = RowsOf(1, tasks[i].batch)

====
